---- MODULE Spec2Model ----
(***************************************************************************)
(* State-machine model of the SlizzAi v3.6 production pipeline core        *)
(* (src/SlizzAi-3.6.py): FrameScheduler, GoldenRatioCompressor,            *)
(* ResourceManager, SuperSamplerClient and the loop of run_pipeline.       *)
(*                                                                         *)
(* Number representations                                                  *)
(*  - A tile coordinate u = k / modulus is kept as its numerator k; the    *)
(*    denominator is always the scheduler's modulus.                       *)
(*  - A codec input element x is kept as the value of x * PHI * 1000.0 in  *)
(*    quarters of a quantization step: 4*k is the integer k, 4*k + 2 is    *)
(*    the tie k + 1/2.  A decoded element cell / (PHI * 1000.0) is kept as *)
(*    its cell.  The arithmetic on this grid is exact: the rounding of the *)
(*    float32 products and quotient is outside the model.                  *)
(*  - Litres are kept in units of 0.00001 L, temperatures in whole         *)
(*    degrees Celsius.                                                     *)
(***************************************************************************)
EXTENDS Integers, Sequences, FiniteSets

VARIABLES
    modulus,      \* FrameScheduler.modulus
    prev,         \* FrameScheduler.prev
    cur,          \* FrameScheduler.cur
    outs,         \* history: the (u, v) numerators returned since the last reset()/construction
    schedOp,      \* history: the last FrameScheduler call, "init" | "next" | "reset"
    reused,       \* history: reset() has been called after at least one next_tile_uv()
    period        \* history: the number of calls since the last reset()/construction after
                  \* which the state first was (0, 1) again, 0 while that has not happened

VARIABLES
    data,         \* compress: the vector passed (or about to be passed) as `data`,
                  \* each element scaled, in quarter steps
    blob,         \* compress: the bytes returned
    cstat,        \* compress: "none" before any call, "ok" (returned) or "error" (raised)
    dblob,        \* decompress: the bytes passed as `blob`
    dlen,         \* decompress: the count passed as `length`
    recon,        \* decompress: the cells of the vector returned
    dstat         \* decompress: "none" before any call, "ok" (returned) or "error" (raised)

VARIABLES
    water_limit,  \* ResourceManager.water_limit
    used,         \* ResourceManager.used
    gateOp,       \* history: the last ResourceManager call, "init" | "update" | "gate"
    gateStat,     \* the last gate(): "none" before any, "pass" (returned) or "raise"
    raisedAt,     \* history: the number of update() calls made when gate() first
                  \* raised, -1 while no gate() has raised
    updates,      \* history: the number of update() calls
    reading,      \* history: the reading the last update() took and where it came from
    only35        \* history: every update() so far took the reading 35 (sensed or fallback)

VARIABLES
    runState,     \* run_pipeline: "Idle" (constructed, loop not entered), "Running",
                  \* "Completed" (line 199 reached) or "Aborted" (an exception left it)
    num_tiles,    \* run_pipeline: num_tiles
    idx,          \* run_pipeline: the loop variable idx
    pc,           \* run_pipeline: the statement of the loop body reached
    uv,           \* run_pipeline: the locals u, v (numerators over the modulus)
    rawFiles,     \* the tile indices whose tile_NNN.png this run has written
    finalFiles,   \* the tile indices whose final_NNN.png this run has written
    rendered,     \* history: the (u, v) handed to export_tile_from_unreal, per call
    cause,        \* "none", or what raised: "codec" | "integrity" | "network" | "budget"
    report,       \* what the handler of __main__ logs for the exception
    trace,        \* history: the steps taken, each <<step, tile index>>
    usedBefore    \* history: ResourceManager.used when the current tile started

schedVars == <<modulus, prev, cur, outs, schedOp, reused, period>>

codecVars == <<data, blob, cstat, dblob, dlen, recon, dstat>>

gateVars == <<water_limit, used, gateOp, gateStat, raisedAt, updates, reading, only35>>

pipeVars ==
    <<runState, num_tiles, idx, pc, uv, rawFiles, finalFiles, rendered, cause, report,
      trace, usedBefore>>

vars == <<schedVars, codecVars, gateVars, pipeVars>>

(***************************************************************************)
(* Bounds                                                                  *)
(***************************************************************************)
\* moduli 2..MaxMod are explored exhaustively (10 = 2*5 attains the period 6*M)
MaxMod == 10
\* calls explored beyond 6 * modulus since the last reset
Slack == 4
\* the longest vector compressed
MaxLen == 2
\* the most sensors psutil reports, and the most entries of one sensor
MaxSensors == 2
MaxEntries == 2
\* the most update() calls on one ResourceManager
MaxUpdates == 6
\* the most tiles of one run, and the length of a tile's payload
MaxTiles == 3
PayloadLen == 2

(***************************************************************************)
(* FrameScheduler                                                          *)
(***************************************************************************)
\* the default of the modulus parameter
DefaultModulus == 100000

\* the moduli explored: every small one, and the modulus of the documented scenario
Moduli == (2 .. MaxMod) \cup {100}

\* a scheduler seeded one Fibonacci term late
ConstructStateOnes == <<1, 1>>

\* __init__: self.prev, self.cur = 0, 1
ConstructState == <<0, 1>>

\* reset() that forgets to restore prev
ResetStateKeepsPrev(p, c) == <<p, 1>>

\* reset(): self.prev, self.cur = 0, 1 (whatever the state p, c before)
ResetState(p, c) == <<0, 1>>

\* the recurrence written as two sequential assignments (prev = cur; cur = prev + cur)
NextStateSequential(p, c, M) == <<c, (c + c) % M>>

\* the recurrence without the reduction modulo M
NextStateUnreduced(p, c, M) == <<c, p + c>>

\* next_tile_uv, the state update: prev, cur = cur, (prev + cur) % modulus
NextState(p, c, M) == <<c, (p + c) % M>>

\* next_tile_uv that reads fib_n after the state update: u and v both from the new cur
TileUVAfterUpdate(p, c, M) == <<NextState(p, c, M)[2] % M, NextState(p, c, M)[2] % M>>

\* next_tile_uv, the returned pair as numerators over M:
\* u = (fib_n % M) / M with fib_n the old cur, v = (new cur % M) / M
TileUV(p, c, M) == <<c % M, NextState(p, c, M)[2] % M>>

SchedConstruct(M) ==
    /\ modulus = M
    /\ prev = ConstructState[1]
    /\ cur = ConstructState[2]
    /\ outs = <<>>
    /\ schedOp = "init"
    /\ reused = FALSE
    /\ period = 0

NextTileUV ==
    /\ Len(outs) < 6 * modulus + Slack
    /\ prev' = NextState(prev, cur, modulus)[1]
    /\ cur' = NextState(prev, cur, modulus)[2]
    /\ outs' = Append(outs, TileUV(prev, cur, modulus))
    /\ schedOp' = "next"
    /\ period' = IF period = 0 /\ NextState(prev, cur, modulus) = ConstructState
                  THEN Len(outs) + 1 ELSE period
    /\ UNCHANGED <<modulus, reused>>

Reset ==
    /\ prev' = ResetState(prev, cur)[1]
    /\ cur' = ResetState(prev, cur)[2]
    /\ outs' = <<>>
    /\ schedOp' = "reset"
    /\ reused' = (reused \/ outs # <<>>)
    /\ period' = 0
    /\ UNCHANGED modulus

(***************************************************************************)
(* GoldenRatioCompressor                                                   *)
(***************************************************************************)
\* the range of numpy.int16
Int16Min == -32768
Int16Max == 32767

InInt16(q) == q >= Int16Min /\ q <= Int16Max

\* rounding toward minus infinity instead of to nearest
QuantizeFloor(t) == t \div 4

\* np.round(data * PHI * 1000.0) of an element whose scaled value is t quarters:
\* to the nearest integer, a tie (t % 4 = 2) to the even neighbour
Quantize(t) ==
    LET k == t \div 4
        r == t % 4
    IN  IF r < 2 THEN k
        ELSE IF r > 2 THEN k + 1
        ELSE IF k % 2 = 0 THEN k ELSE k + 1

\* .astype(np.int16) keeping the low 16 bits (two's complement)
Wrap16(q) == ((q - Int16Min) % 65536) + Int16Min

\* .astype(np.int16) clamping to the range
Saturate16(q) == IF q < Int16Min THEN Int16Min ELSE IF q > Int16Max THEN Int16Max ELSE q

\* .astype(np.int16) of the rounded value q: q itself when it is in range; out of
\* range the C conversion is undefined, builds wrap or saturate
CastInt16(q) == IF InInt16(q) THEN {q} ELSE {Wrap16(q), Saturate16(q)}

\* .tobytes() of one int16 cell: two bytes, low byte first
CellBytes(c) == <<(c % 65536) % 256, (c % 65536) \div 256>>

\* .tobytes() of the cells
ToBytes(cells) ==
    [j \in 1 .. 2 * Len(cells) |-> CellBytes(cells[(j + 1) \div 2])[2 - (j % 2)]]

\* np.frombuffer(..., dtype=np.int16): the cell stored in bytes lo, hi
CellOf(lo, hi) ==
    IF lo + 256 * hi > Int16Max THEN lo + 256 * hi - 65536 ELSE lo + 256 * hi

\* np.frombuffer(blob, dtype=np.int16, count=length) fails exactly when the buffer
\* holds fewer than length * 2 bytes
FromBufferFails(b, n) == Len(b) < 2 * n

\* np.frombuffer(blob, dtype=np.int16, count=length): the first `length` cells
FromBuffer(b, n) == [i \in 1 .. n |-> CellOf(b[2 * i - 1], b[2 * i])]

\* the scaled values (in quarter steps) an element takes in the exploration: around
\* zero with ties, around both ends of the int16 range, and 21.0 * PHI * 1000
Elems ==
    {-6, -2, -1, 0, 1, 2, 3, 6}
        \cup {4 * Int16Max + d : d \in {-2, 0, 1, 2, 3}}
        \cup {4 * Int16Min - d : d \in {0, 1, 2, 3}}
        \cup {4 * 33979}

Vectors == UNION {[1 .. n -> Elems] : n \in 0 .. MaxLen}

\* the cell vectors .astype(np.int16) may produce for the rounded vector
RECURSIVE CastVectors(_)
CastVectors(d) ==
    IF d = <<>> THEN {<<>>}
    ELSE {<<c>> \o rest : c \in CastInt16(Quantize(Head(d))), rest \in CastVectors(Tail(d))}

\* the buffers handed to decompress: the blob compress returned, the blob cut
\* short by one or two bytes, and the blob followed by one or two more bytes
BlobInputs(b) ==
    {b, b \o <<0>>, b \o <<1, 0>>}
        \cup {SubSeq(b, 1, Len(b) - k) : k \in {k \in 1 .. 2 : k <= Len(b)}}

\* the codec before compress(d) is called
CodecInit(d) ==
    /\ data = d
    /\ blob = <<>>
    /\ cstat = "none"
    /\ dblob = <<>>
    /\ dlen = 0
    /\ recon = <<>>
    /\ dstat = "none"

\* compress(data): never raises, whatever the values
Compress ==
    /\ cstat' = "ok"
    /\ \E cells \in CastVectors(data) : blob' = ToBytes(cells)
    /\ UNCHANGED <<data, dblob, dlen, recon, dstat>>

\* decompress(blob, length)
Decompress(b, n) ==
    /\ dblob' = b
    /\ dlen' = n
    /\ IF FromBufferFails(b, n)
          THEN dstat' = "error" /\ recon' = <<>>
          ELSE dstat' = "ok" /\ recon' = FromBuffer(b, n)
    /\ UNCHANGED <<data, blob, cstat>>

(***************************************************************************)
(* ResourceManager                                                         *)
(***************************************************************************)
\* TEMP_BASE = 30.0 degrees Celsius
TEMP_BASE == 30
\* L_PER_DEGREE = 0.00005 litres per degree, in units of 0.00001 L
L_PER_DEGREE == 5
\* the reading assumed when no sensor is found: 35.0 degrees Celsius
FallbackTemp == 35

\* the temperatures a sensor entry reports: below, at and above the baseline
Temps == {25, 30, 35, 40}

\* the configured water limits, in units of 0.00001 L (100 is 0.001 L)
Limits == {-25, 0, 50, 100, 125}

\* what psutil offers: no callable sensors_temperatures ("absent"), a call that
\* returns something that is no dict ("other"), or a dict, kept as the sequence of
\* its values in iteration order, each a sequence of entries' `current` readings
EntryLists == UNION {[1 .. n -> Temps] : n \in 0 .. MaxEntries}

SensorInputs ==
    {[kind |-> "absent", sensors |-> <<>>], [kind |-> "other", sensors |-> <<>>]}
        \cup {[kind |-> "dict", sensors |-> ss] :
                 ss \in UNION {[1 .. n -> EntryLists] : n \in 0 .. MaxSensors}}

\* update() finds a sensor: psutil returns a dict with a non-empty entry list
Found(sensor) ==
    sensor.kind = "dict" /\ \E i \in 1 .. Len(sensor.sensors) : sensor.sensors[i] # <<>>

\* the reading update() takes: entries[0].current of the first sensor that has
\* entries, 35.0 when psutil offers none
Reading(sensor) ==
    IF Found(sensor)
    THEN LET first == CHOOSE i \in 1 .. Len(sensor.sensors) :
                         /\ sensor.sensors[i] # <<>>
                         /\ \A j \in 1 .. i - 1 : sensor.sensors[j] = <<>>
         IN  sensor.sensors[first][1]
    ELSE FallbackTemp

\* what one update() call gets out of psutil: the reading it takes and whether it
\* was sensed or is the fallback
Offer(sensor) ==
    [temp |-> Reading(sensor), src |-> IF Found(sensor) THEN "sensed" ELSE "fallback"]

\* everything update() can get out of the sensor inputs explored
Offers == {Offer(sensor) : sensor \in SensorInputs}

\* the difference to the baseline, not clamped at zero
DeltaSigned(t) == t - TEMP_BASE

\* delta = max(0.0, reading - TEMP_BASE)
Delta(t) == IF t - TEMP_BASE > 0 THEN t - TEMP_BASE ELSE 0

\* self.used = delta * L_PER_DEGREE: the total overwritten, not accumulated
UsedAssigned(u, t) == Delta(t) * L_PER_DEGREE

\* self.used += delta * L_PER_DEGREE
UsedAfter(u, t) == u + Delta(t) * L_PER_DEGREE

\* the test of gate() with > in place of >=
GateRaisesStrict(u, limit) == u > limit

\* gate(): raises when self.used >= self.water_limit
GateRaises(u, limit) == u >= limit

\* __init__(water_limit)
GateConstruct(limit) ==
    /\ water_limit = limit
    /\ used = 0
    /\ gateOp = "init"
    /\ gateStat = "none"
    /\ raisedAt = -1
    /\ updates = 0
    /\ reading = [temp |-> 0, src |-> "none"]
    /\ only35 = TRUE

\* update(), with what it gets out of psutil at the call
Update(offer) ==
    /\ updates < MaxUpdates
    /\ used' = UsedAfter(used, offer.temp)
    /\ gateOp' = "update"
    /\ updates' = updates + 1
    /\ reading' = offer
    /\ only35' = (only35 /\ offer.temp = 35)
    /\ UNCHANGED <<water_limit, gateStat, raisedAt>>

\* gate()
Gate ==
    /\ gateStat' = IF GateRaises(used, water_limit) THEN "raise" ELSE "pass"
    /\ raisedAt' = IF raisedAt = -1 /\ GateRaises(used, water_limit)
                    THEN updates ELSE raisedAt
    /\ gateOp' = "gate"
    /\ UNCHANGED <<water_limit, used, updates, reading, only35>>

(***************************************************************************)
(* SuperSamplerClient, export_tile_from_unreal and run_pipeline            *)
(*                                                                         *)
(* The output directory is taken to hold no tile files when the run        *)
(* starts, and writing a file to it to succeed; a user interrupt is not    *)
(* modelled.                                                               *)
(***************************************************************************)
\* the default of num_tiles
DefaultTiles == 24

\* the values of fib_modulus configured: the default and the documented scenario's
PipeModuli == {100, DefaultModulus}

\* np.random.rand draws every element from [0, 1): scaled by PHI * 1000 it lies in
\* [0, 1618.04), here in quarter steps: 2 is the tie 0.5 (rounds to 0), 6470 the
\* tie 1617.5 (rounds to 1618), the two ends of the range.
PayloadElems == {2, 6470}

\* the payloads of a tile (4096 elements in the code)
Payloads == [1 .. PayloadLen -> PayloadElems]

\* np.allclose(delta, recon, atol=1e-3), with numpy's rtol = 1e-5:
\* |delta - recon| <= 1e-3 + 1e-5 * |recon| in every element. On the scaled grid,
\* times 4 * PHI * 1000 * 10^6: 4 * PHI * 10^6 = 6472135.95...
AllClose(d, r) ==
    /\ Len(d) = Len(r)
    /\ \A i \in 1 .. Len(d) :
          LET diff == IF d[i] >= 4 * r[i] THEN d[i] - 4 * r[i] ELSE 4 * r[i] - d[i]
              mag  == IF r[i] >= 0 THEN r[i] ELSE 0 - r[i]
          IN  1000000 * diff <= 6472135 + 40 * mag

\* what one supersample() call meets: the service answers 2xx ("ok"),
\* requests.post raises (connection error, timeout after self.timeout seconds),
\* or the service answers an error status and raise_for_status() raises
Outcomes == {"ok", "request_error", "http_error"}

\* supersample() raises requests.RequestException
EnhanceRaises(outcome) == outcome # "ok"

\* supersample() that writes the response body before it looks at the status
EnhanceWritesAlways(outcome) == outcome # "request_error"

\* supersample() reaches open(out_path, 'wb') and writes the file
EnhanceWrites(outcome) == outcome = "ok"

\* a loop that stops one tile early
LoopDoneEarly(i, n) == i + 1 >= n

\* for idx in range(num_tiles): the range is exhausted
LoopDone(i, n) == i >= n

\* a loop body that enhances before it renders
StepAfterEnhanceFirst(step) ==
    CASE step = "coord"      -> "payload"
      [] step = "payload"    -> "compress"
      [] step = "compress"   -> "decompress"
      [] step = "decompress" -> "assert"
      [] step = "assert"     -> "enhance"
      [] step = "enhance"    -> "render"
      [] step = "render"     -> "update"
      [] step = "update"     -> "gate"
      [] step = "gate"       -> "sleep"
      [] step = "sleep"      -> "coord"

\* the statement of the loop body that follows a statement that returned
StepAfter(step) ==
    CASE step = "coord"      -> "payload"
      [] step = "payload"    -> "compress"
      [] step = "compress"   -> "decompress"
      [] step = "decompress" -> "assert"
      [] step = "assert"     -> "render"
      [] step = "render"     -> "enhance"
      [] step = "enhance"    -> "update"
      [] step = "update"     -> "gate"
      [] step = "gate"       -> "sleep"
      [] step = "sleep"      -> "coord"

\* f"{x:.3f}" of a number of litres: rounded to 0.001 L (x in units of 0.00001 L)
Round3(x) == (x + 50) \div 100

\* nothing logged yet
NoReport == [line |-> "none", shows |-> {}]

\* "Pipeline aborted: Water budget exceeded: {used:.3f}L used / {limit:.3f}L allowed"
GateReport(u, limit) ==
    [line |-> "Pipeline aborted",
     shows |-> {<<"used", Round3(u)>>, <<"limit", Round3(limit)>>}]

\* "Pipeline aborted: Compression integrity failed"
IntegrityReport == [line |-> "Pipeline aborted", shows |-> {}]

\* "Pipeline aborted: buffer is smaller than requested size" (np.frombuffer)
CodecReport == [line |-> "Pipeline aborted", shows |-> {}]

\* "Network error during super-sampling: {req_err}"
NetworkReport == [line |-> "Network error during super-sampling", shows |-> {}]

\* run_pipeline before its loop: the components are constructed from cfg
PipeIdle(n) ==
    /\ runState = "Idle"
    /\ num_tiles = n
    /\ idx = 0
    /\ pc = "start"
    /\ uv = <<0, 0>>
    /\ rawFiles = {}
    /\ finalFiles = {}
    /\ rendered = <<>>
    /\ cause = "none"
    /\ report = NoReport
    /\ trace = <<>>
    /\ usedBefore = 0

\* the step `step` of the current tile is taken
Logged(step) == trace' = Append(trace, <<step, idx>>)

\* the statement returns: on to the next one
Proceed ==
    /\ pc' = StepAfter(pc)
    /\ UNCHANGED <<runState, cause, report>>

\* the statement raises: the exception leaves run_pipeline and __main__ logs it
Abort(c, rep) ==
    /\ runState' = "Aborted"
    /\ cause' = c
    /\ report' = rep
    /\ pc' = pc

\* run_pipeline is at statement `step` of its loop
Running(step) == runState = "Running" /\ pc = step

\* scheduler.reset(), then the loop is entered
PipeStart ==
    /\ runState = "Idle"
    /\ Reset
    /\ runState' = "Running"
    /\ pc' = "coord"
    /\ UNCHANGED <<num_tiles, idx, uv, rawFiles, finalFiles, rendered, cause, report,
                   trace, usedBefore>>
    /\ UNCHANGED <<codecVars, gateVars>>

\* the loop takes the next idx: u, v = scheduler.next_tile_uv()
PipeCoord ==
    /\ Running("coord")
    /\ ~LoopDone(idx, num_tiles)
    /\ NextTileUV
    /\ uv' = TileUV(prev, cur, modulus)
    /\ usedBefore' = used
    /\ Logged("coord")
    /\ Proceed
    /\ UNCHANGED <<num_tiles, idx, rawFiles, finalFiles, rendered>>
    /\ UNCHANGED <<codecVars, gateVars>>

\* the range is exhausted: "Pipeline completed successfully within water budget."
PipeComplete ==
    /\ Running("coord")
    /\ LoopDone(idx, num_tiles)
    /\ runState' = "Completed"
    /\ pc' = "end"
    /\ UNCHANGED <<num_tiles, idx, uv, rawFiles, finalFiles, rendered, cause, report,
                   trace, usedBefore>>
    /\ UNCHANGED <<schedVars, codecVars, gateVars>>

\* delta = np.random.rand(4096).astype(np.float32)
PipePayload ==
    /\ Running("payload")
    /\ \E d \in Payloads : data' = d
    /\ UNCHANGED <<blob, cstat, dblob, dlen, recon, dstat>>
    /\ Logged("payload")
    /\ Proceed
    /\ UNCHANGED <<num_tiles, idx, uv, rawFiles, finalFiles, rendered, usedBefore>>
    /\ UNCHANGED <<schedVars, gateVars>>

\* blob = compressor.compress(delta)
PipeCompress ==
    /\ Running("compress")
    /\ Compress
    /\ Logged("compress")
    /\ Proceed
    /\ UNCHANGED <<num_tiles, idx, uv, rawFiles, finalFiles, rendered, usedBefore>>
    /\ UNCHANGED <<schedVars, gateVars>>

\* recon = compressor.decompress(blob, len(delta)); np.frombuffer raises ValueError
\* on a blob that is too short
PipeDecompress ==
    /\ Running("decompress")
    /\ Decompress(blob, Len(data))
    /\ Logged("decompress")
    /\ IF FromBufferFails(blob, Len(data))
          THEN Abort("codec", CodecReport)
          ELSE Proceed
    /\ UNCHANGED <<num_tiles, idx, uv, rawFiles, finalFiles, rendered, usedBefore>>
    /\ UNCHANGED <<schedVars, gateVars>>

\* assert np.allclose(delta, recon, atol=1e-3), "Compression integrity failed"
PipeAssert ==
    /\ Running("assert")
    /\ Logged("assert")
    /\ IF AllClose(data, recon)
          THEN Proceed
          ELSE Abort("integrity", IntegrityReport)
    /\ UNCHANGED <<num_tiles, idx, uv, rawFiles, finalFiles, rendered, usedBefore>>
    /\ UNCHANGED <<schedVars, codecVars, gateVars>>

\* export_tile_from_unreal(u, v, tile_path): the stub writes a blank image
PipeRender ==
    /\ Running("render")
    /\ rawFiles' = rawFiles \cup {idx}
    /\ rendered' = Append(rendered, uv)
    /\ Logged("render")
    /\ Proceed
    /\ UNCHANGED <<num_tiles, idx, uv, finalFiles, usedBefore>>
    /\ UNCHANGED <<schedVars, codecVars, gateVars>>

\* sampler.supersample(tile_path, final_path): one call, whatever it meets
PipeEnhance ==
    /\ Running("enhance")
    /\ \E outcome \in Outcomes :
          /\ finalFiles' = IF EnhanceWrites(outcome)
                              THEN finalFiles \cup {idx} ELSE finalFiles
          /\ IF EnhanceRaises(outcome)
                THEN Abort("network", NetworkReport)
                ELSE Proceed
    /\ Logged("enhance")
    /\ UNCHANGED <<num_tiles, idx, uv, rawFiles, rendered, usedBefore>>
    /\ UNCHANGED <<schedVars, codecVars, gateVars>>

\* manager.update()
PipeUpdate ==
    /\ Running("update")
    /\ \E offer \in Offers : Update(offer)
    /\ Logged("update")
    /\ Proceed
    /\ UNCHANGED <<num_tiles, idx, uv, rawFiles, finalFiles, rendered, usedBefore>>
    /\ UNCHANGED <<schedVars, codecVars>>

\* a loop that calls gate() and goes on whatever it finds
PipeGateNoAbort ==
    /\ Running("gate")
    /\ Gate
    /\ Logged("gate")
    /\ Proceed
    /\ UNCHANGED <<num_tiles, idx, uv, rawFiles, finalFiles, rendered, usedBefore>>
    /\ UNCHANGED <<schedVars, codecVars>>

\* manager.gate(): its RuntimeError leaves run_pipeline
PipeGate ==
    /\ Running("gate")
    /\ Gate
    /\ Logged("gate")
    /\ IF GateRaises(used, water_limit)
          THEN Abort("budget", GateReport(used, water_limit))
          ELSE Proceed
    /\ UNCHANGED <<num_tiles, idx, uv, rawFiles, finalFiles, rendered, usedBefore>>
    /\ UNCHANGED <<schedVars, codecVars>>

\* a loop whose index does not advance
PipeSleepStays ==
    /\ Running("sleep")
    /\ idx' = idx
    /\ Logged("sleep")
    /\ Proceed
    /\ UNCHANGED <<num_tiles, uv, rawFiles, finalFiles, rendered, usedBefore>>
    /\ UNCHANGED <<schedVars, codecVars, gateVars>>

\* time.sleep(loop_delay), and the loop moves to the next idx
PipeSleep ==
    /\ Running("sleep")
    /\ idx' = idx + 1
    /\ Logged("sleep")
    /\ Proceed
    /\ UNCHANGED <<num_tiles, uv, rawFiles, finalFiles, rendered, usedBefore>>
    /\ UNCHANGED <<schedVars, codecVars, gateVars>>

(***************************************************************************)
(* Specifications: each component under every sequence of calls            *)
(***************************************************************************)
InitScheduler ==
    /\ \E M \in Moduli : SchedConstruct(M)
    /\ CodecInit(<<>>)
    /\ GateConstruct(100)
    /\ PipeIdle(DefaultTiles)

SchedulerNext == NextTileUV /\ UNCHANGED <<codecVars, gateVars, pipeVars>>

SchedulerReset == Reset /\ UNCHANGED <<codecVars, gateVars, pipeVars>>

NextScheduler == SchedulerNext \/ SchedulerReset

SpecScheduler == InitScheduler /\ [][NextScheduler]_vars

InitCodec ==
    /\ SchedConstruct(DefaultModulus)
    /\ \E d \in Vectors : CodecInit(d)
    /\ GateConstruct(100)
    /\ PipeIdle(DefaultTiles)

CodecCompress == cstat = "none" /\ Compress /\ UNCHANGED <<schedVars, gateVars, pipeVars>>

CodecDecompress ==
    /\ cstat = "ok"
    /\ \E b \in BlobInputs(blob), n \in 0 .. MaxLen + 1 : Decompress(b, n)
    /\ UNCHANGED <<schedVars, gateVars, pipeVars>>

NextCodec == CodecCompress \/ CodecDecompress

SpecCodec == InitCodec /\ [][NextCodec]_vars

InitGate ==
    /\ SchedConstruct(DefaultModulus)
    /\ CodecInit(<<>>)
    /\ \E limit \in Limits : GateConstruct(limit)
    /\ PipeIdle(DefaultTiles)

GateUpdate == (\E offer \in Offers : Update(offer)) /\ UNCHANGED <<schedVars, codecVars, pipeVars>>

GateCheck == Gate /\ UNCHANGED <<schedVars, codecVars, pipeVars>>

NextGate == GateUpdate \/ GateCheck

SpecGate == InitGate /\ [][NextGate]_vars

InitPipeline ==
    /\ \E M \in PipeModuli : SchedConstruct(M)
    /\ CodecInit(<<>>)
    /\ \E limit \in Limits : GateConstruct(limit)
    /\ \E n \in 0 .. MaxTiles : PipeIdle(n)

NextPipeline ==
    \/ PipeStart
    \/ PipeCoord
    \/ PipeComplete
    \/ PipePayload
    \/ PipeCompress
    \/ PipeDecompress
    \/ PipeAssert
    \/ PipeRender
    \/ PipeEnhance
    \/ PipeUpdate
    \/ PipeGate
    \/ PipeSleep

SpecPipeline == InitPipeline /\ [][NextPipeline]_vars

\* every statement of the loop returns or raises: the run keeps taking steps
SpecPipelineLive == SpecPipeline /\ WF_vars(NextPipeline)

(***************************************************************************)
(* FrameScheduler: properties                                              *)
(***************************************************************************)
\* the state of a scheduler n calls of next_tile_uv() after it was in state st,
\* a pair (prev, cur); the calls are split in halves to keep the evaluation shallow
RECURSIVE StateAfter(_, _, _)
StateAfter(st, M, n) ==
    IF n = 0 \/ Len(st) # 2 THEN st
    ELSE IF n = 1 THEN NextState(st[1], st[2], M)
    ELSE StateAfter(StateAfter(st, M, n \div 2), M, n - (n \div 2))

\* the pairs returned by n calls of next_tile_uv() on a scheduler in state st
RECURSIVE RunFrom(_, _, _)
RunFrom(st, M, n) ==
    IF n = 0 \/ Len(st) # 2 THEN <<>>
    ELSE IF n = 1 THEN <<TileUV(st[1], st[2], M)>>
    ELSE RunFrom(st, M, n \div 2)
            \o RunFrom(StateAfter(st, M, n \div 2), M, n - (n \div 2))

\* the pairs returned by the first n calls on a freshly constructed scheduler
FreshRun(M, n) == RunFrom(ConstructState, M, n)

\* C1: whatever next_tile_uv() and reset() calls came before, reset() leaves the
\* state (prev = 0, cur = 1), and the pairs returned since the last reset() are
\* exactly those a freshly constructed scheduler with the same modulus returns:
\* a function of (M, n) only.
C1_ResetReproduces ==
    /\ schedOp = "reset" => (prev = 0 /\ cur = 1)
    /\ outs = FreshRun(modulus, Len(outs))

\* C1 witness: three calls after a reset() that itself followed earlier calls.
C1_Witness == reused /\ schedOp = "next" /\ Len(outs) = 3

\* C2: prev and cur stay in 0..M-1 and every returned u, v has its numerator in
\* 0..M-1, that is u, v in [0, 1).
C2_StateBelowModulus ==
    /\ modulus >= 2
    /\ prev \in 0 .. modulus - 1
    /\ cur \in 0 .. modulus - 1
    /\ \A i \in 1 .. Len(outs) :
          outs[i][1] \in 0 .. modulus - 1 /\ outs[i][2] \in 0 .. modulus - 1

\* C2 witness: a call whose sum prev + cur had to be reduced modulo M.
C2_Witness ==
    /\ schedOp = "next"
    /\ Len(outs) >= 2
    /\ outs[Len(outs) - 1][1] + outs[Len(outs) - 1][2] >= modulus

\* the Fibonacci terms 1,1,2,3,5,8 of the documented scenario
ScenarioFib == <<1, 1, 2, 3, 5, 8>>

\* C3 as stated: with modulus 100 the first call returns (0.01, 0.02) and calls
\* 1..5 return the pairs of consecutive terms of 1,1,2,3,5,8 mod 100.
C3_Original ==
    (modulus = 100 /\ Len(outs) >= 1) =>
        /\ outs[1] = <<1, 2>>
        /\ \A n \in 1 .. Len(outs) :
              n <= 5 => outs[n] = <<ScenarioFib[n] % 100, ScenarioFib[n + 1] % 100>>

\* C3 amended: with modulus 100 the n-th call, n = 1..5, returns the n-th and
\* (n+1)-th terms of 1,1,2,3,5,8 mod 100 as numerators; the first call returns
\* (0.01, 0.01), the second (0.01, 0.02).
C3_ScenarioPairs ==
    (modulus = 100 /\ Len(outs) >= 1) =>
        /\ outs[1] = <<1, 1>>
        /\ \A n \in 1 .. Len(outs) :
              n <= 5 => outs[n] = <<ScenarioFib[n] % 100, ScenarioFib[n + 1] % 100>>

\* C3 witness: the fifth call of the scenario has returned.
C3_Witness == modulus = 100 /\ Len(outs) = 5 /\ outs[5] = <<5, 8>>

\* C4: there is a period p, 1 <= p <= 6*M, after which the scheduler is in the
\* state (0, 1) again (so 6*M calls without a reset never pass without it), and
\* the (n+p)-th call returns what the n-th call returned.
C4_PeriodWithin6M ==
    /\ Len(outs) >= 6 * modulus => period \in 1 .. 6 * modulus
    /\ (period # 0 /\ Len(outs) = period) => (prev = 0 /\ cur = 1)
    /\ period # 0 => \A n \in 1 .. Len(outs) - period : outs[n + period] = outs[n]

\* C4 witness: modulus 10, whose period is exactly 6*M = 60, one call into the
\* second period.
C4_Witness == modulus = 10 /\ period = 60 /\ Len(outs) = 61

\* C21: with no reset() in between, the v returned by a next_tile_uv() call is the
\* u returned by the next call, and the u of every call is the numerator cur had
\* before the call (u = cur / M): consecutive tiles share one coordinate value.
C21_ConsecutiveTilesShareCoordinate ==
    [][(schedOp' = "next" /\ Len(outs') = Len(outs) + 1) =>
          /\ outs'[Len(outs')][1] = cur
          /\ outs'[Len(outs')][2] = cur'
          /\ \A i \in 1 .. Len(outs') - 1 : outs'[i][2] = outs'[i + 1][1]]_vars

\* C21 witness: a third or later call since the last reset(), whose u is the v of
\* the call before and whose own v has wrapped below it.
C21_Witness ==
    /\ schedOp = "next"
    /\ Len(outs) >= 3
    /\ outs[Len(outs)][1] = outs[Len(outs) - 1][2]
    /\ outs[Len(outs)][2] < outs[Len(outs)][1]

(***************************************************************************)
(* GoldenRatioCompressor: properties                                       *)
(***************************************************************************)
\* every element of d rounds to a value inside the int16 range
AllInRange(d) == \A i \in 1 .. Len(d) : InInt16(Quantize(d[i]))

\* C5: if any element's rounded scaled value is outside -32768..32767, compress
\* fails with an overflow error and returns no blob.
C5_OverflowFails == cstat = "ok" => AllInRange(data)

\* C6: decompress(blob, length) fails whenever len(blob) # 2 * length, shorter or
\* longer, and returns a vector only when len(blob) = 2 * length, the length of
\* every blob compress returns for `length` elements.
C6_LengthMismatchFails ==
    /\ cstat = "ok" => Len(blob) = 2 * Len(data)
    /\ dstat = "ok" => Len(dblob) = 2 * dlen
    /\ dstat = "error" => Len(dblob) # 2 * dlen

\* the call decompress(compress(data), len(data)) has returned
RoundTripDone == cstat = "ok" /\ dstat = "ok" /\ dblob = blob /\ dlen = Len(data)

C8_UsedNeverDecreases ==
    [][/\ used' >= used
       /\ gateOp' = "gate" => (used' = used /\ water_limit' = water_limit)
       /\ used' = 0 => used = 0]_vars

\* C8 witness: an update() whose sensor reads below the baseline, after earlier
\* updates have made `used` positive.
C8_Witness ==
    /\ gateOp = "update"
    /\ reading.src = "sensed"
    /\ reading.temp < TEMP_BASE
    /\ used > 0
    /\ updates >= 2

\* C9: gate() raises exactly when used >= water_limit (equality included), and
\* once a gate() has raised every later gate() raises too, whatever update() and
\* gate() calls came in between; the exceeded condition is never left.
C9_ExceededIsTerminal ==
    /\ gateOp = "gate" => (gateStat = "raise" <=> used >= water_limit)
    /\ raisedAt # -1 => used >= water_limit
    /\ (raisedAt # -1 /\ gateOp = "gate") => gateStat = "raise"

\* C9 witness: a gate() that raises again after the first raise (at equality) and
\* further update() calls.
C9_Witness ==
    /\ gateOp = "gate"
    /\ gateStat = "raise"
    /\ raisedAt >= 1
    /\ updates >= raisedAt + 2
    /\ reading.temp < TEMP_BASE

\* C10: with water_limit = 0.001 L and every update() taking the reading 35 (from
\* a sensor or as the fallback), each update() adds exactly 0.00025 L (25 units):
\* 0.00025 after the first, 0.0005 after the second; gate() passes while fewer
\* than four updates were made and raises from the fourth on (used >= 0.001).
C10_ScenarioAccumulates ==
    (water_limit = 100 /\ only35) =>
        /\ used = 25 * updates
        /\ updates = 1 => used = 25
        /\ updates = 2 => used = 50
        /\ (gateOp = "gate" /\ updates < 4) => (gateStat = "pass" /\ used < 100)
        /\ (gateOp = "gate" /\ updates >= 4) => (gateStat = "raise" /\ used >= 100)

\* C10 witness: the gate() after the fourth update() of the scenario, the last of
\* them on the fallback reading, raises at used = 0.001 L exactly.
C10_Witness ==
    /\ water_limit = 100
    /\ only35
    /\ updates = 4
    /\ reading.src = "fallback"
    /\ used = 100
    /\ gateOp = "gate"
    /\ gateStat = "raise"

(***************************************************************************)
(* run_pipeline: properties                                                *)
(***************************************************************************)
\* the steps taken so far
Taken == {trace[j] : j \in 1 .. Len(trace)}

\* the tile indices 0 .. n-1
Tiles(n) == 0 .. n - 1

Terminal == runState \in {"Completed", "Aborted"}

\* every tile of the run has been through its whole loop body and left both files
AllTilesFinished ==
    /\ \A i \in Tiles(num_tiles) :
          \A step \in {"coord", "assert", "render", "enhance", "update", "gate"} :
             <<step, i>> \in Taken
    /\ rawFiles = Tiles(num_tiles)
    /\ finalFiles = Tiles(num_tiles)
    /\ updates = num_tiles

\* C11: the run state only moves Idle -> Running -> Completed or Aborted; a failed
\* gate check, integrity check or service call means Aborted, from which the run
\* never moves; and Completed is reached only with no failure and with every tile
\* 0 .. N-1 through its coordinate, codec check, render, enhancement, gate update
\* and gate check.
C11_CompletedOnlyAfterAllTiles ==
    [][/\ runState' # runState =>
             <<runState, runState'>> \in {<<"Idle", "Running">>,
                                          <<"Running", "Completed">>,
                                          <<"Running", "Aborted">>}
       /\ (gateStat' = "raise" \/ cause' # "none") => runState' = "Aborted"
       /\ runState' = "Completed" =>
             /\ AllTilesFinished'
             /\ cause' = "none"
             /\ gateStat' # "raise"]_vars

\* C11 witness: a run of at least two tiles has completed, having used water.
C11_Witness == runState = "Completed" /\ num_tiles >= 2 /\ used > 0

\* C12: when gate() raises after the k-th tile (k = idx + 1 counted from 1), the
\* run is Aborted by the budget, exactly k coordinates were pulled, k renders and
\* k updates were made, no step of a later tile was taken, and the raw and the
\* enhanced files of tiles 0 .. k-1, and no others, exist; nothing changes that
\* afterwards. With num_tiles = 3 and the raise after the first tile there is
\* exactly one pair of files.
C12_AbortAfterKthTile ==
    gateStat = "raise" =>
        /\ runState = "Aborted" /\ cause = "budget"
        /\ raisedAt = idx + 1
        /\ Len(outs) = idx + 1 /\ Len(rendered) = idx + 1 /\ updates = idx + 1
        /\ \A e \in Taken : e[2] <= idx
        /\ rawFiles = Tiles(idx + 1) /\ finalFiles = Tiles(idx + 1)
        /\ (num_tiles = 3 /\ raisedAt = 1) =>
              (Cardinality(rawFiles) = 1 /\ Cardinality(finalFiles) = 1)

\* C12 witness: the scenario, three tiles configured under a positive limit and
\* the gate raising after the first.
C12_Witness ==
    num_tiles = 3 /\ water_limit > 0 /\ gateStat = "raise" /\ raisedAt = 1 /\ rawFiles = {0}

\* the last step taken
LastStep == trace[Len(trace)]

\* C13: a render or an enhancement call is only ever started while
\* used < water_limit, whatever the configured limit (zero and negative limits
\* included) and the number of tiles.
C13_ExternalCallsWithinBudget ==
    (trace # <<>> /\ LastStep[1] \in {"render", "enhance"}) => used < water_limit

\* the number of supersample() calls made for tile i
EnhanceCalls(i) == Cardinality({j \in 1 .. Len(trace) : trace[j] = <<"enhance", i>>})

\* C15: a failed enhancement call is retried: the run is Aborted by a service
\* failure only after more than one call was made for the tile, never by the
\* first failed call.
C15_RetriedBeforeAbort ==
    cause = "network" => EnhanceCalls(idx) >= 2

\* the names of the values the logged failure shows
Shown == {p[1] : p \in report.shows}

\* C16: every terminal failure of a run (budget, integrity, service) reports the
\* ledger's used value and the index of the last completed tile.
C16_FailureReportsUsedAndTile ==
    runState = "Aborted" => {"used", "tile"} \subseteq Shown

\* the statements of the loop body, in the order of the source
StepOrder ==
    <<"coord", "payload", "compress", "decompress", "assert", "render", "enhance",
      "update", "gate", "sleep">>

\* the tiles started so far
Started == {e[2] : e \in Taken}

\* C17: the steps taken are, tile after tile from tile 0, the fixed sequence
\* coordinate, payload, codec round trip and check, render, enhancement, gate
\* update, gate check, pacing delay, each once per tile, so that a step of tile
\* i+1 comes only after the whole of tile i; no tile is started after a gate check
\* that raised; next_tile_uv() has been called once per started tile; and the
\* render of tile i gets the (i+1)-th pair of a fresh scheduler.
C17_FixedOrderOncePerTile ==
    /\ \A j \in 1 .. Len(trace) :
          trace[j] = <<StepOrder[((j - 1) % Len(StepOrder)) + 1], (j - 1) \div Len(StepOrder)>>
    /\ \A i \in Started : i > 0 => <<"gate", i - 1>> \in Taken
    /\ raisedAt # -1 => \A i \in Started : i < raisedAt
    /\ Len(outs) = Cardinality(Started)
    /\ outs # <<>> => uv = outs[Len(outs)]
    /\ \A i \in 1 .. Len(rendered) : rendered[i] = FreshRun(modulus, i)[i]

\* C17 witness: the third tile has been through all its steps, pacing delay
\* included, with a modulus that the coordinates have not yet wrapped.
C17_Witness ==
    /\ Len(trace) = 3 * Len(StepOrder)
    /\ LastStep = <<"sleep", 2>>
    /\ rendered = <<<<1, 1>>, <<1, 2>>, <<2, 3>>>>

\* C18: whatever num_tiles >= 0 is configured, the run reaches Completed or
\* Aborted, it never starts more than num_tiles tiles, and from a terminal state
\* nothing changes any more: no tile work, no gate update, no state change.
C18_Terminates ==
    /\ <>Terminal
    /\ [](Cardinality(Started) <= num_tiles /\ Len(outs) <= num_tiles)
    /\ [][Terminal => UNCHANGED vars]_vars

\* C18 witness: a run of the most tiles has ended, all of them started.
C18_Witness == Terminal /\ num_tiles = MaxTiles /\ Cardinality(Started) = num_tiles

\* C19: whenever the run ends with "Pipeline completed successfully within water
\* budget", used < water_limit, for every num_tiles >= 0 and every water_limit.
C19_CompletedWithinBudget == runState = "Completed" => used < water_limit

\* C20: when supersample() raises for tile k = idx, the run is Aborted with the raw
\* files of tiles 0 .. k, the enhanced files of tiles 0 .. k-1 only, and used as
\* it was when tile k started, that is after the k updates of the earlier tiles:
\* tile k makes no gate update and no gate check.
C20_EnhanceFailureLeavesRawOnly ==
    cause = "network" =>
        /\ runState = "Aborted"
        /\ rawFiles = Tiles(idx + 1)
        /\ finalFiles = Tiles(idx)
        /\ used = usedBefore /\ updates = idx
        /\ <<"update", idx>> \notin Taken /\ <<"gate", idx>> \notin Taken

\* C20 witness: the service answers the second tile with an error status, after
\* the first tile used water.
C20_Witness ==
    cause = "network" /\ idx = 1 /\ used > 0 /\ rawFiles = {0, 1} /\ finalFiles = {0}

====
